---- MODULE Spec2Model ----
(***************************************************************************)
(* A model of StackExchangeCollector (src/src/data/collector.py): the      *)
(* collector object, its question and answer fetchers, the mock            *)
(* generator, the collection pipeline with its checkpoint writes, and      *)
(* save_to_json.                                                           *)
(*                                                                         *)
(* A question is a record with question_id (and accepted_answer_id when    *)
(* it has one); the pipeline adds the field answers.  An answer is a       *)
(* record [answer_id, is_accepted].  The text, score, tag and date fields  *)
(* of the records are random or remote content that no operation reads;    *)
(* they are left out.                                                      *)
(*                                                                         *)
(* The remote site, the random source and the disk are the environment:    *)
(* what they may yield during a run is fixed by the variable world.        *)
(***************************************************************************)
EXTENDS Integers, Sequences, FiniteSets, TLC

\* ------------------------------------------------------------- bounds
\* Largest max_count a caller passes in the short runs (all answer outcomes).
MaxCount == 3
\* Largest max_count a caller passes in the long runs (one answer outcome).
MaxLongCount == 25
\* Largest page size and max pages given to the constructor.
MaxPageSize == 2
MaxPages == 2
\* Largest number of answers the remote site returns for one question.
MaxLiveAnswers == 2

\* ------------------------------------------------ program constants
\* random.randint(1, 5): the largest number of mock answers of a question.
MockAnswerMax == 5
\* (i + 1) % 10: the checkpoint interval.
CheckpointEvery == 10

VARIABLES
    world,      \* the environment of the run: what callers, remote and RNG may yield
    ctor,       \* the arguments the constructor was called with
    self,       \* the collector's own attributes
    api,        \* self.api, the StackAPI client (absent in mock mode)
    pc,         \* "idle", "loop" (inside the for loop), "returned", "raised"
    op,         \* the public method the current or last call entered
    args,       \* the arguments of the current or last call
    request,    \* the parameters of the last question request sent
    response,   \* the items of the last question response, untruncated
    questions,  \* the local list questions of collect_questions_with_answers
    questions_with_answers, \* the local accumulating list
    i,          \* the number of loop iterations completed
    fetches,    \* the calls of collect_answers_for_question made by this call
    writes,     \* the calls of save_to_json made by this call: path and data
    result,     \* the value returned
    exception   \* the exception that escaped, "none" if none

vars == <<world, ctor, self, api, pc, op, args, request, response, questions,
          questions_with_answers, i, fetches, writes, result, exception>>

\* --------------------------------------------------------- constructor
\* __init__: the attributes the constructor sets on self.
NewSelf(c) ==
    [use_mock_data |-> c.use_mock_data,
     page_size     |-> c.page_size,
     rate_limit    |-> c.rate_limit]

\* __init__: self.api, created only when use_mock_data is false.
NewApi(c) ==
    IF ~c.use_mock_data
    THEN [present   |-> TRUE,
          site      |-> c.site,
          key       |-> c.api_key,
          page_size |-> c.page_size,
          max_pages |-> c.max_pages]
    ELSE [present |-> FALSE]

\* The constructor calls of the model: api_key "" is None.
CtorArgs ==
    [api_key       : {"", "key"},
     site          : {"stackoverflow"},
     page_size     : 1..MaxPageSize,
     max_pages     : 1..MaxPages,
     rate_limit    : {30},
     use_mock_data : BOOLEAN]

\* ------------------------------------------------------ mock generator
\* _generate_mock_questions: question i of range(1, count + 1).
MockQuestion(n) == [question_id |-> n, accepted_answer_id |-> n * 100]

\* A generator whose range stops one short: range(1, count).
MockQuestionsShort(count) == [n \in 1..(count - 1) |-> MockQuestion(n)]

\* _generate_mock_questions(count): the list built by the loop.
MockQuestions(count) == [n \in 1..count |-> MockQuestion(n)]

\* _generate_mock_answers: answer i of range(1, answer_count + 1).
MockAnswer(question_id, n) ==
    [answer_id |-> question_id * 100 + n, is_accepted |-> (n = 1)]

\* _generate_mock_answers with answer_count the value random.randint drew.
MockAnswers(question_id, answer_count) ==
    [n \in 1..answer_count |-> MockAnswer(question_id, n)]

\* ---------------------------------------------------------- the remote
\* The items of a question response of n items, newest first.
RemoteQuestions(n) == [k \in 1..n |-> [question_id |-> 50 - k]]

\* The items of an answer response of n items for a question.
RemoteAnswers(question_id, n) ==
    [k \in 1..n |-> [answer_id |-> question_id * 10 + k, is_accepted |-> FALSE]]

\* What an api.fetch call may do: return items, raise StackAPIError, or raise
\* another exception (a timeout, a KeyError on a malformed response).
FetchOk(n) == [kind |-> "ok", n |-> n]
FetchStackAPIError == [kind |-> "StackAPIError", n |-> 0]
FetchException == [kind |-> "Exception", n |-> 0]
FetchFailures == {FetchStackAPIError, FetchException}

\* The answer outcomes of each mode: random.randint(1, 5) answers in mock
\* mode, a response or a failure in live mode.
AnswerOutcomes(mock) ==
    IF mock THEN {FetchOk(n) : n \in 1..MockAnswerMax}
    ELSE {FetchOk(n) : n \in 0..MaxLiveAnswers} \cup FetchFailures

\* The arguments of a call besides max_count: the defaults, a date
\* range, and stricter thresholds.  A date is given by its epoch seconds,
\* None is 0.
FilterArgs ==
    {[tag |-> "nlp", min_answers |-> 1, from_date |-> 0, to_date |-> 0, min_score |-> 0],
     [tag |-> "nlp", min_answers |-> 1, from_date |-> 1609459200, to_date |-> 1609545600, min_score |-> 0],
     [tag |-> "nlp", min_answers |-> 2, from_date |-> 0, to_date |-> 0, min_score |-> 5]}

\* The arguments of one call: the filter arguments f and max_count.
CallArgs(f, max_count) == [max_count |-> max_count] @@ f

\* No call made yet, no request sent, no response received.
NoArgs == [max_count |-> 0]
NoRequest == [sent |-> FALSE]
NoResponse == [kind |-> "none", items |-> <<>>]

\* ---------------------------------------------------- collect_questions
\* The request parameters: fromdate and todate are set only for a given date.
Params(a) ==
    LET params == [tagged |-> a.tag, sort |-> "creation", order |-> "desc",
                   min |-> a.min_answers, min_score |-> a.min_score]
        dated == IF a.from_date # 0
                 THEN ("fromdate" :> a.from_date) @@ params ELSE params
    IN  IF a.to_date # 0 THEN ("todate" :> a.to_date) @@ dated ELSE dated

\* A page limit rounded down: max_count // page_size.
PageLimitFloor(max_count, page_size) == max_count \div page_size

\* self.api.max_pages = (max_count + self.api.page_size - 1) // self.api.page_size
PageLimit(max_count, page_size) == (max_count + page_size - 1) \div page_size

\* if len(questions) > max_count: questions = questions[:max_count]
Truncate(items, max_count) ==
    IF Len(items) > max_count THEN SubSeq(items, 1, max_count) ELSE items

\* The except clauses of collect_questions: only StackAPIError is caught.
QuestionsCaught(kind) == kind = "StackAPIError"

\* collect_questions called with arguments a when the request does o:
\* the client afterwards, the request and response, the value returned
\* and whether an exception escaped.
CollectQuestions(a, o) ==
    IF self.use_mock_data
    THEN [api |-> api, request |-> NoRequest, response |-> NoResponse,
          value |-> MockQuestions(a.max_count), raised |-> FALSE]
    ELSE LET api2 == [api EXCEPT !.max_pages = PageLimit(a.max_count, api.page_size)]
             items == IF o.kind = "ok" THEN RemoteQuestions(o.n) ELSE <<>>
         IN  [api |-> api2,
              request |-> [sent |-> TRUE, params |-> Params(a)],
              response |-> [kind |-> o.kind, items |-> items],
              value |-> IF o.kind = "ok" THEN Truncate(items, a.max_count) ELSE <<>>,
              raised |-> o.kind # "ok" /\ ~QuestionsCaught(o.kind)]

\* ----------------------------------------- collect_answers_for_question
\* A handler that catches StackAPIError only.
AnswersCaughtNarrow(kind) == kind = "StackAPIError"

\* The except clauses of collect_answers_for_question: StackAPIError and
\* every other Exception are caught.
AnswersCaught(kind) == kind \in {"StackAPIError", "Exception"}

\* collect_answers_for_question(question_id) when the generator draws o.n
\* answers (mock mode) or the request does o (live mode).
CollectAnswersForQuestion(question_id, o) ==
    IF self.use_mock_data
    THEN [value |-> MockAnswers(question_id, o.n), raised |-> FALSE]
    ELSE IF o.kind = "ok"
         THEN [value |-> RemoteAnswers(question_id, o.n), raised |-> FALSE]
         ELSE [value |-> <<>>, raised |-> ~AnswersCaught(o.kind)]

\* One entry of the log of answer fetches: the question asked about, what the
\* request did and the items it delivered.
FetchEntry(question_id, o) ==
    [question_id |-> question_id,
     kind |-> o.kind,
     items |-> IF self.use_mock_data THEN MockAnswers(question_id, o.n)
               ELSE IF o.kind = "ok" THEN RemoteAnswers(question_id, o.n)
               ELSE <<>>]

\* ------------------------------------------------------------ pipeline
\* if not questions: the early return on an empty question list.
NoQuestionsUnchecked(qs) == FALSE

NoQuestions(qs) == qs = <<>>

\* An enumeration that walks the list from its end.
NextQuestionReversed(qs, idx) == qs[Len(qs) - idx]

\* for i, question in enumerate(questions): the question of iteration idx.
NextQuestion(qs, idx) == qs[idx + 1]

\* question['answers'] = answers
Merge(question, answers) == ("answers" :> answers) @@ question

\* A checkpoint test on the index instead of the count: i % 10 == 0.
ShouldCheckpointOffByOne(idx, total_questions) ==
    idx % CheckpointEvery = 0 \/ idx = total_questions - 1

\* if (i + 1) % 10 == 0 or i == total_questions - 1, i counted from 0.
ShouldCheckpoint(idx, total_questions) ==
    (idx + 1) % CheckpointEvery = 0 \/ idx = total_questions - 1

\* f"data/raw/nlp_questions_temp_{i+1}.json"
TempPath(count) == [kind |-> "temp", count |-> count]

\* "data/raw/nlp_questions_with_answers.json"
OutputPath == [kind |-> "output", count |-> 0]

\* A checkpoint that serialises the fetched list instead of the accumulated one.
SaveCallFetched(data, path) == [path |-> path, data |-> questions]

\* One save_to_json call: the path and the data serialised.
SaveCall(data, path) == [path |-> path, data |-> data]

\* ----------------------------------------------------------------- Init
\* The environment of a run.  long: runs of up to MaxLongCount questions in
\* which every answer fetch has the same outcome; otherwise runs of up to
\* MaxCount questions in which each answer fetch has any outcome.
Worlds(c, long) ==
    IF long
    THEN [counts : {1..MaxLongCount},
          question_outcomes : {{FetchOk(MaxLongCount + 1)} \cup FetchFailures},
          answer_outcomes : {{o} : o \in AnswerOutcomes(c.use_mock_data)},
          disk_ok : {BOOLEAN}]
    ELSE [counts : {0..MaxCount},
          question_outcomes : {{FetchOk(n) : n \in 0..(MaxCount + 1)} \cup FetchFailures},
          answer_outcomes : {AnswerOutcomes(c.use_mock_data)},
          disk_ok : {BOOLEAN}]

\* The state after StackExchangeCollector(...) returns.
Constructed(long) ==
    /\ ctor \in CtorArgs
    /\ ctor.use_mock_data => ctor.api_key = ""
    /\ world \in Worlds(ctor, long)
    /\ self = NewSelf(ctor)
    /\ api = NewApi(ctor)
    /\ pc = "idle"
    /\ op = "none"
    /\ args = NoArgs
    /\ request = NoRequest
    /\ response = NoResponse
    /\ questions = <<>>
    /\ questions_with_answers = <<>>
    /\ i = 0
    /\ fetches = <<>>
    /\ writes = <<>>
    /\ result = <<>>
    /\ exception = "none"

Init == Constructed(FALSE)

LongInit == Constructed(TRUE)

\* -------------------------------------------------------------- actions
\* No call is in progress: the caller may make the next one.
CanCall == pc = "idle"

\* The request outcomes that matter in the collector's mode: mock mode
\* sends no request.
QuestionOutcomes(max_count) ==
    IF self.use_mock_data THEN {FetchOk(max_count)} ELSE world.question_outcomes

\* collect_questions_with_answers, from its entry to the first loop
\* iteration (or to the early return on an empty question list).
EnterCollect ==
    /\ CanCall
    /\ \E f \in FilterArgs, max_count \in world.counts :
       \E o \in QuestionOutcomes(max_count) :
         LET a == CallArgs(f, max_count)
             r == CollectQuestions(a, o)
         IN  /\ op' = "collect_questions_with_answers"
             /\ args' = a
             /\ api' = r.api
             /\ request' = r.request
             /\ response' = r.response
             /\ questions' = r.value
             /\ questions_with_answers' = <<>>
             /\ i' = 0
             /\ fetches' = <<>>
             /\ writes' = <<>>
             /\ result' = <<>>
             /\ exception' = IF r.raised THEN "Exception" ELSE "none"
             /\ pc' = IF r.raised THEN "raised"
                      ELSE IF NoQuestions(r.value) THEN "returned"
                      ELSE "loop"
    /\ UNCHANGED <<world, ctor, self>>

\* One iteration of the for loop: fetch the answers of the next question,
\* attach them, append the question, and write the checkpoint when due.
ProcessQuestion ==
    /\ pc = "loop"
    /\ i < Len(questions)
    /\ \E o \in world.answer_outcomes :
       \E saved \in (IF ShouldCheckpoint(i, Len(questions)) THEN world.disk_ok ELSE {TRUE}) :
         LET question == NextQuestion(questions, i)
             question_id == question.question_id
             r == CollectAnswersForQuestion(question_id, o)
             merged == Merge(question, r.value)
             appended == Append(questions_with_answers, merged)
         IN  /\ fetches' = Append(fetches, FetchEntry(question_id, o))
             /\ IF r.raised
                THEN /\ pc' = "raised"
                     /\ exception' = o.kind
                     /\ UNCHANGED <<questions, questions_with_answers, i, writes>>
                ELSE /\ questions' = [k \in 1..Len(questions) |->
                                        IF questions[k] = question THEN merged
                                        ELSE questions[k]]
                     /\ questions_with_answers' = appended
                     /\ i' = i + 1
                     /\ writes' = IF ShouldCheckpoint(i, Len(questions))
                                  THEN Append(writes, SaveCall(appended, TempPath(i + 1)))
                                  ELSE writes
                     /\ pc' = IF saved THEN "loop" ELSE "raised"
                     /\ exception' = IF saved THEN "none" ELSE "OSError"
    /\ UNCHANGED <<world, ctor, self, api, op, args, request, response, result>>

\* return questions_with_answers, after the last iteration.
ReturnCollected ==
    /\ pc = "loop"
    /\ i = Len(questions)
    /\ pc' = "returned"
    /\ result' = questions_with_answers
    /\ UNCHANGED <<world, ctor, self, api, op, args, request, response, questions,
                   questions_with_answers, i, fetches, writes, exception>>

\* collect_questions called directly.
CallCollectQuestions ==
    /\ CanCall
    /\ \E f \in FilterArgs, max_count \in world.counts :
       \E o \in QuestionOutcomes(max_count) :
         LET a == CallArgs(f, max_count)
             r == CollectQuestions(a, o)
         IN  /\ op' = "collect_questions"
             /\ args' = a
             /\ api' = r.api
             /\ request' = r.request
             /\ response' = r.response
             /\ result' = r.value
             /\ exception' = IF r.raised THEN "Exception" ELSE "none"
             /\ pc' = IF r.raised THEN "raised" ELSE "returned"
    /\ questions' = <<>>
    /\ questions_with_answers' = <<>>
    /\ i' = 0
    /\ fetches' = <<>>
    /\ writes' = <<>>
    /\ UNCHANGED <<world, ctor, self>>

\* collect_answers_for_question called directly.
CallCollectAnswers ==
    /\ CanCall
    /\ \E question_id \in {1, 2}, o \in world.answer_outcomes :
         LET r == CollectAnswersForQuestion(question_id, o)
         IN  /\ fetches' = <<FetchEntry(question_id, o)>>
             /\ result' = r.value
             /\ exception' = IF r.raised THEN o.kind ELSE "none"
             /\ pc' = IF r.raised THEN "raised" ELSE "returned"
    /\ op' = "collect_answers_for_question"
    /\ args' = NoArgs
    /\ request' = NoRequest
    /\ response' = NoResponse
    /\ questions' = <<>>
    /\ questions_with_answers' = <<>>
    /\ i' = 0
    /\ writes' = <<>>
    /\ UNCHANGED <<world, ctor, self, api>>

\* save_to_json called directly on the list the pipeline returned, as the
\* callers of the collector do with a non-empty result.
CallSaveToJson ==
    /\ pc = "returned"
    /\ op = "collect_questions_with_answers"
    /\ result # <<>>
    /\ \E saved \in world.disk_ok :
         /\ pc' = IF saved THEN "returned" ELSE "raised"
         /\ exception' = IF saved THEN "none" ELSE "OSError"
    /\ op' = "save_to_json"
    /\ writes' = Append(writes, SaveCall(result, OutputPath))
    /\ UNCHANGED <<world, ctor, self, api, args, request, response, questions,
                   questions_with_answers, i, fetches, result>>

\* The caller is done with what the call returned or raised and goes on to
\* its next call on the same collector: the frame of the call is gone, the
\* collector and its client stay as the call left them.
NextCall ==
    /\ pc \in {"returned", "raised"}
    /\ pc' = "idle"
    /\ op' = "none"
    /\ args' = NoArgs
    /\ request' = NoRequest
    /\ response' = NoResponse
    /\ questions' = <<>>
    /\ questions_with_answers' = <<>>
    /\ i' = 0
    /\ fetches' = <<>>
    /\ writes' = <<>>
    /\ result' = <<>>
    /\ exception' = "none"
    /\ UNCHANGED <<world, ctor, self, api>>

Next ==
    \/ EnterCollect
    \/ ProcessQuestion
    \/ ReturnCollected
    \/ CallCollectQuestions
    \/ CallCollectAnswers
    \/ CallSaveToJson
    \/ NextCall

Spec == Init /\ [][Next]_vars

LongSpec == LongInit /\ [][Next]_vars

\* --------------------------------------------------------------- claims
InPipeline == op = "collect_questions_with_answers"

HasAnswers(q) == "answers" \in DOMAIN q

QuestionIds(qs) == [k \in 1..Len(qs) |-> qs[k].question_id]

WriteCounts == [k \in 1..Len(writes) |-> writes[k].path.count]

FetchKinds == [k \in 1..Len(fetches) |-> fetches[k].kind]

\* C1: in mock mode collect_questions_with_answers(tag, max_count=K), K >= 1,
\* returns exactly K questions, each with an answers field of at least one
\* answer, whatever the filter arguments are.
C1_MockReturnsKAnswered ==
    (InPipeline /\ self.use_mock_data /\ pc = "returned" /\ args.max_count >= 1)
    => /\ Len(result) = args.max_count
       /\ \A k \in 1..Len(result) :
            HasAnswers(result[k]) /\ Len(result[k].answers) >= 1

C1_Witness ==
    /\ InPipeline /\ self.use_mock_data /\ pc = "returned"
    /\ args.max_count = 3
    /\ args.from_date # 0 /\ args.to_date # 0
    /\ Len(result) = 3
    /\ Len(result[1].answers) = 1
    /\ Len(result[3].answers) = 5

\* C2: during one pipeline call over N questions the checkpoint writes made
\* once c questions are merged are exactly those at the multiples of 10 up to
\* c, in order, followed by one at N when c = N and N is no multiple of 10;
\* each write goes to the temp path keyed by its count.
C2_CheckpointCounts ==
    InPipeline =>
      LET N == Len(questions)
          tens == i \div 10
          last == IF i = N /\ N % 10 # 0 THEN 1 ELSE 0
      IN  /\ Len(writes) = tens + last
          /\ \A k \in 1..Len(writes) :
               writes[k].path = [kind |-> "temp",
                                 count |-> IF k <= tens THEN 10 * k ELSE N]
          /\ (pc = "returned" /\ N = 25) => WriteCounts = <<10, 20, 25>>
          /\ (pc = "returned" /\ N = 20) => WriteCounts = <<10, 20>>

C2_Witness ==
    /\ InPipeline /\ pc = "returned"
    /\ Len(result) = 25
    /\ WriteCounts = <<10, 20, 25>>

\* C3: when the question fetcher or the mock generator yields no question,
\* the pipeline returns an empty list at once, with no answer fetch and no
\* save_to_json call.
C3_EmptyInput ==
    (InPipeline /\ pc \in {"loop", "returned"} /\ questions = <<>>)
    => /\ pc = "returned"
       /\ result = <<>>
       /\ fetches = <<>>
       /\ writes = <<>>

C3_Witness ==
    /\ InPipeline /\ ~self.use_mock_data /\ pc = "returned"
    /\ args.max_count = 2
    /\ response = [kind |-> "ok", items |-> <<>>]
    /\ result = <<>>

\* C4: in live mode a failed answer request (StackAPIError or any other
\* exception) makes collect_answers_for_question return an empty list and
\* never raise; the pipeline goes on: the question is in the result with
\* empty answers, every other question has the answers fetched for it, and
\* the result has as many questions as were fetched.
C4_AnswerFailureIsolated ==
    ~self.use_mock_data =>
      /\ (op = "collect_answers_for_question" /\ pc # "idle")
         => /\ pc = "returned"
            /\ fetches[1].kind # "ok" => result = <<>>
      /\ InPipeline
         => /\ exception \in {"StackAPIError", "Exception"} => fetches = <<>>
            /\ Len(fetches) = Len(questions_with_answers)
            /\ \A k \in 1..Len(fetches) :
                 /\ questions_with_answers[k].question_id = fetches[k].question_id
                 /\ questions_with_answers[k].answers =
                      IF fetches[k].kind = "ok" THEN fetches[k].items ELSE <<>>
            /\ pc = "returned"
               => /\ result = questions_with_answers
                  /\ Len(result) = Len(questions)

C4_Witness ==
    /\ InPipeline /\ ~self.use_mock_data /\ pc = "returned"
    /\ FetchKinds = <<"ok", "Exception", "ok">>
    /\ Len(result) = 3
    /\ Len(result[1].answers) = 2
    /\ result[2].answers = <<>>
    /\ Len(result[3].answers) = 1

\* C5: in live mode every failure of the question request (max_count >= 1)
\* makes collect_questions return an empty list without raising, so the
\* pipeline ends with an empty result and no exception.
C5_QuestionFailureDegrades ==
    (/\ ~self.use_mock_data
     /\ op \in {"collect_questions", "collect_questions_with_answers"}
     /\ args.max_count >= 1
     /\ response.kind \in {"StackAPIError", "Exception"})
    => /\ pc = "returned"
       /\ result = <<>>
       /\ exception = "none"

\* C6: every checkpoint written during a pipeline call holds exactly the
\* first c questions of the accumulated (and finally returned) list, c being
\* the count in its path, each with its answers attached; the last checkpoint
\* of a returned call equals the returned list.
C6_CheckpointsArePrefixes ==
    InPipeline =>
      /\ \A k \in 1..Len(writes) :
           LET c == writes[k].path.count
           IN  /\ c <= Len(questions_with_answers)
               /\ writes[k].data = SubSeq(questions_with_answers, 1, c)
               /\ \A j \in 1..Len(writes[k].data) : HasAnswers(writes[k].data[j])
      /\ (pc = "returned" /\ result # <<>>)
         => /\ result = questions_with_answers
            /\ writes # <<>>
            /\ writes[Len(writes)].data = result

C6_Witness ==
    /\ InPipeline /\ pc = "returned"
    /\ Len(result) = 25
    /\ Len(writes) = 3
    /\ writes[1].data = SubSeq(result, 1, 10)
    /\ writes[2].data = SubSeq(result, 1, 20)
    /\ writes[3].data = result
    /\ Len(result[15].answers) >= 1

\* C7: in live mode, for max_count > 0, collect_questions sets the page limit
\* of the client to ceil(max_count / page_size), and on a response returns
\* the first max_count items in the response's order when there are more,
\* and all of them otherwise.
C7_PageLimitAndTruncation ==
    (/\ ~self.use_mock_data
     /\ op \in {"collect_questions", "collect_questions_with_answers"}
     /\ args.max_count > 0)
    => /\ api.max_pages * api.page_size >= args.max_count
       /\ (api.max_pages - 1) * api.page_size < args.max_count
       /\ (op = "collect_questions" /\ response.kind = "ok")
          => /\ pc = "returned"
             /\ Len(result) <= args.max_count
             /\ Len(result) = IF Len(response.items) > args.max_count
                              THEN args.max_count ELSE Len(response.items)
             /\ \A k \in 1..Len(result) : result[k] = response.items[k]

C7_Witness ==
    /\ ~self.use_mock_data /\ op = "collect_questions" /\ pc = "returned"
    /\ args.max_count = 3
    /\ api.page_size = 2
    /\ api.max_pages = 2
    /\ Len(response.items) = 4
    /\ QuestionIds(result) = <<49, 48, 47>>

\* C8: the configuration fixed at construction, the max pages limit
\* included, still has the constructor's values after any sequence of calls
\* (stated for the calls made with max_count >= 1).
C8_ConfigurationUnchanged ==
    (op \in {"collect_questions", "collect_questions_with_answers"}
       => args.max_count >= 1)
    => /\ self = NewSelf(ctor)
       /\ api = NewApi(ctor)

\* C9: the pipeline works through the questions in fetch order: the k-th
\* answer fetch is for the k-th question the fetcher (or generator) returned,
\* and the returned list has the same identifiers in the same order.
C9_FetchOrderKept ==
    InPipeline =>
      LET fetched == IF self.use_mock_data
                     THEN [k \in 1..args.max_count |-> k]
                     ELSE QuestionIds(Truncate(response.items, args.max_count))
      IN  /\ Len(fetches) <= Len(fetched)
          /\ \A k \in 1..Len(fetches) : fetches[k].question_id = fetched[k]
          /\ pc = "returned" => QuestionIds(result) = fetched

C9_Witness ==
    /\ InPipeline /\ ~self.use_mock_data /\ pc = "returned"
    /\ QuestionIds(response.items) = <<49, 48, 47, 46>>
    /\ QuestionIds(result) = <<49, 48, 47>>
    /\ [k \in 1..Len(fetches) |-> fetches[k].question_id] = <<49, 48, 47>>

\* C10: in mock mode every returned question's accepted_answer_id is the
\* answer_id of the one answer of its answers list that is accepted.
C10_AcceptedAnswerConsistent ==
    (InPipeline /\ self.use_mock_data /\ pc = "returned")
    => \A k \in 1..Len(result) :
         LET accepted == {j \in 1..Len(result[k].answers) :
                            result[k].answers[j].is_accepted}
         IN  /\ Cardinality(accepted) = 1
             /\ \A j \in accepted :
                  result[k].answers[j].answer_id = result[k].accepted_answer_id
====
